---- MODULE Spec2Model ----
(***************************************************************************)
(* k-means (Lloyd's algorithm) as given by the notebook 3-kmeans: the      *)
(* serial kmeans(X, k, maxiter) loop with its stop condition, and the      *)
(* distributed driver loop broadcast / mapPartition / reduceByKey / map /  *)
(* collect.  Arithmetic is exact: a centroid coordinate is kept as an      *)
(* integer number of 1/Scale units, Scale being a common multiple of every *)
(* possible cluster size, so that sum / count is computed without rounding.*)
(***************************************************************************)
EXTENDS Integers, Sequences, FiniteSets, TLC

\* ---- bounds of the model ------------------------------------------------
\* n, the number of data points
NumPoints == 3
\* k ranges over 1..MaxK
MaxK == 2
\* maxiter ranges over 1..MaxIter
MaxIter == 2
\* the RDD has 1..MaxPartitions partitions
MaxPartitions == 2

\* number of features of a data point ("working in bi-dimensional spaces")
Dim == 2

\* the places of the plane where data points lie
Locations == {<<0, 0>>, <<1, 0>>, <<3, 0>>, <<0, 2>>}

VARIABLES
    impl,         \* "kmeans": the serial function; "driver": the distributed loop
    datapoints,   \* X / the RDD: point index -> feature vector
    part,         \* point index -> the partition that owns the point
    numPartitions,
    k, maxiter,
    centroids0,   \* the initial centroids (while k-means++ runs: the ones
                  \* chosen so far)
    seeder,       \* k-means++: "off", "first", "sampling", "seeded", "failed"
    d2,           \* k-means++: point index -> squared distance to the nearest
                  \* centroid chosen so far (the point's weight)
    centroids,    \* centroid id -> position (1/Scale units)
    prev,         \* the centroids the last iteration started from
    itr,          \* number of completed iterations
    het,          \* heterogeneity recorded by each completed iteration
    disp,         \* largest squared centroid displacement of each completed
                  \* iteration (what the comparison of centroids and
                  \* new_centroids saw)
    state,        \* "Running", "Converged", "BudgetExhausted"
    pc,           \* "loop", "map", "reduce", "done"
    bcCentroids,  \* value of the broadcast variable of the running iteration
    task,         \* partition -> "pending", "done"
    seen,         \* partition -> the broadcast value its mapper read
    closest,      \* partition -> the (id -> (sum, count)) its mapper emitted
    wcss,         \* partition -> sum of squared distances its mapper measured
    shuffle,      \* the partial results still to be combined, each with the
                  \* partitions it covers
    deadline,     \* the caller's deadline: "none", "pending", "expired"
    elbow         \* elbow sweep: the heterogeneity collected for each k so
                  \* far (elbow[k] is that of the run with k clusters)

vars == <<impl, datapoints, part, numPartitions, k, maxiter, centroids0,
          seeder, d2, centroids, prev, itr, het, disp, state, pc, bcCentroids, task,
          seen, closest, wcss, shuffle, deadline, elbow>>

\* ---- exact arithmetic ---------------------------------------------------
RECURSIVE Gcd(_, _)
Gcd(a, b) == IF b = 0 THEN a ELSE Gcd(b, a % b)

RECURSIVE LcmUpTo(_)
LcmUpTo(n) == IF n <= 1 THEN 1 ELSE (n * LcmUpTo(n - 1)) \div Gcd(n, LcmUpTo(n - 1))

\* one data-space unit, in centroid units: every possible count divides it
\* (the data set of an elbow sweep has NumPoints + 1 points)
Scale == LcmUpTo(NumPoints + 1)

Features == 1..Dim
Points == DOMAIN datapoints
ZeroVec == [f \in Features |-> 0]
VecAdd(a, b) == [f \in Features |-> a[f] + b[f]]
ScaleVec(x) == [f \in Features |-> Scale * x[f]]

RECURSIVE SqDistFrom(_, _, _)
SqDistFrom(a, b, f) ==
    IF f > Dim THEN 0
    ELSE (a[f] - b[f]) * (a[f] - b[f]) + SqDistFrom(a, b, f + 1)

\* squared Euclidean distance (|| . ||_2^2) of two positions in 1/Scale units
SqDist(a, b) == SqDistFrom(a, b, 1)

RECURSIVE SumOver(_, _)
SumOver(S, w) ==
    IF S = {} THEN 0
    ELSE LET e == CHOOSE e \in S : TRUE IN w[e] + SumOver(S \ {e}, w)

RECURSIVE VecSumOver(_, _)
VecSumOver(S, X) ==
    IF S = {} THEN ZeroVec
    ELSE LET e == CHOOSE e \in S : TRUE IN VecAdd(X[e], VecSumOver(S \ {e}, X))

\* lexicographic order on feature vectors
RECURSIVE VecLeqFrom(_, _, _)
VecLeqFrom(a, b, f) ==
    IF f > Dim THEN TRUE
    ELSE a[f] < b[f] \/ (a[f] = b[f] /\ VecLeqFrom(a, b, f + 1))

VecLeq(a, b) == VecLeqFrom(a, b, 1)

\* ---- the data set and its partitions ------------------------------------
\* (variant) a partition that also holds the points of the partitions before it
Partition_Overlapping(p) == {i \in Points : part[i] <= p}

\* the points a partition owns
Partition(p) == {i \in Points : part[i] = p}

Partitions == 1..numPartitions

\* centroid identifiers of a run with kk clusters
Ids(kk) == 0..(kk - 1)

\* ---- assignment step ----------------------------------------------------
\* (variant) of several closest centroids, the last
cluster_assignment_LastOfTies(x, cs) ==
    CHOOSE j \in DOMAIN cs :
        \A i \in DOMAIN cs :
            \/ SqDist(ScaleVec(x), cs[j]) < SqDist(ScaleVec(x), cs[i])
            \/ SqDist(ScaleVec(x), cs[j]) = SqDist(ScaleVec(x), cs[i]) /\ j >= i

\* index of the closest centroid (squared Euclidean distance); of several
\* closest ones, the first
cluster_assignment(x, cs) ==
    CHOOSE j \in DOMAIN cs :
        \A i \in DOMAIN cs :
            \/ SqDist(ScaleVec(x), cs[j]) < SqDist(ScaleVec(x), cs[i])
            \/ SqDist(ScaleVec(x), cs[j]) = SqDist(ScaleVec(x), cs[i]) /\ j <= i

\* cluster_assignment of every point of S, as pairs <<point index, centroid id>>
Assignment(S, cs) == {<<i, cluster_assignment(datapoints[i], cs)>> : i \in S}

\* the (sum, count) of the points that the assignment z gives to centroid j
ClusterSum(z, j) ==
    LET members == {a[1] : a \in {b \in z : b[2] = j}}
    IN [sum |-> VecSumOver(members, datapoints), count |-> Cardinality(members)]

\* (variant) one value per point is emitted, keyed by the point
PartialAggregate_PerPoint(z) ==
    [i \in {a[1] : a \in z} |-> [sum |-> datapoints[i], count |-> 1]]

\* for every centroid id that received a point, the sum and the number of
\* the points assigned to it
PartialAggregate(z) == [j \in {a[2] : a \in z} |-> ClusterSum(z, j)]

\* mapPartition(assignement_step) on the points S of one partition
assignement_step(S, cs) == PartialAggregate(Assignment(S, cs))

RECURSIVE SquaredDistances(_, _)
\* sum over the assigned points x_i of || x_i - mu_{z_i} ||^2, in 1/Scale^2 units
SquaredDistances(z, cs) ==
    IF z = {} THEN 0
    ELSE LET a == CHOOSE a \in z : TRUE
         IN SqDist(ScaleVec(datapoints[a[1]]), cs[a[2]]) + SquaredDistances(z \ {a}, cs)

\* (variant) the sum runs over every centroid for every point, not over the
\* centroid the point is assigned to
heterogeneity_EveryCentroid(S, cs) == SquaredDistances(S \X DOMAIN cs, cs)

\* heterogeneity of the points of S against the centroids cs
heterogeneity(S, cs) == SquaredDistances(Assignment(S, cs), cs)

\* ---- update step --------------------------------------------------------
\* (variant) the counts of the two values are not added
update_step_sum_CountLost(a, b) ==
    [sum |-> VecAdd(a.sum, b.sum), count |-> a.count]

\* reduceByKey's function: add two (sum, count) values of one centroid id
update_step_sum(a, b) ==
    [sum |-> VecAdd(a.sum, b.sum), count |-> a.count + b.count]

\* (variant) a key that one of the two sides lacks is lost
reduceByKey_CommonKeys(A, B) ==
    [j \in (DOMAIN A) \cap (DOMAIN B) |-> update_step_sum(A[j], B[j])]

\* (variant) of two values of one key, only the first is kept
reduceByKey_KeepFirst(A, B) ==
    [j \in (DOMAIN A) \cup (DOMAIN B) |-> IF j \in DOMAIN A THEN A[j] ELSE B[j]]

\* reduceByKey over two partial results: values of a key present in both are
\* combined with update_step_sum, a key present in one keeps its value
reduceByKey(A, B) ==
    [j \in (DOMAIN A) \cup (DOMAIN B) |->
        IF j \in DOMAIN A /\ j \in DOMAIN B THEN update_step_sum(A[j], B[j])
        ELSE IF j \in DOMAIN A THEN A[j] ELSE B[j]]

\* (variant) the sum is taken for the mean
update_step_mean_NoDivision(v) == [f \in Features |-> Scale * v.sum[f]]

\* the mean of the points of one cluster (each feature individually)
update_step_mean(v) == [f \in Features |-> (Scale * v.sum[f]) \div v.count]

\* map(update_step_mean).collect(): one centroid per reduced key
collect(reduced) == [j \in DOMAIN reduced |-> update_step_mean(reduced[j])]

\* ---- empty clusters in the serial update --------------------------------
\* squared distance of point i to the nearest of the centroids cs
NearestDist(i, cs) ==
    SqDist(ScaleVec(datapoints[i]), cs[cluster_assignment(datapoints[i], cs)])

\* the points farthest from their nearest surviving centroid
Farthest(cs) == {i \in Points : \A m \in Points : NearestDist(i, cs) >= NearestDist(m, cs)}

\* an empty cluster's centroid is put on the far point chosen for it
Reinitialized(far, j) == ScaleVec(datapoints[far[j]])

\* new_centroids of the serial update step: the mean of every cluster that
\* has points; a cluster that has none is reinitialized
new_centroids(cs, far) ==
    LET agg == assignement_step(Points, cs)
        means == collect(agg)
    IN [j \in DOMAIN cs |->
           IF j \in DOMAIN agg THEN means[j] ELSE Reinitialized(far, j)]

\* ---- loop control -------------------------------------------------------
\* largest squared distance between the old and the new position of a centroid
MaxDisplacementSq(old, new) ==
    LET ids == DOMAIN old \cap DOMAIN new
    IN CHOOSE d \in {SqDist(old[j], new[j]) : j \in ids} :
           \A j \in ids : SqDist(old[j], new[j]) <= d

\* (variant) stop as soon as any one centroid is unchanged
stop_condition_Any(cs, new) == \E j \in DOMAIN cs : cs[j] = new[j]

\* STOP CONDITION: if centroids == new_centroids => stop
stop_condition(cs, new) == cs = new

\* (variant) one iteration too many
range_has_next_OffByOne(done, n) == done <= n

\* for itr in range(maxiter): the loop goes on while iterations are left
range_has_next(done, n) == done < n

\* the controller state after an iteration
controller(stop, done, n) ==
    IF stop THEN "Converged"
    ELSE IF range_has_next(done, n) THEN "Running" ELSE "BudgetExhausted"

\* (variant) the loop is not left when the controller stops
next_pc_NoBreak(st) == "loop"

\* where the loop goes after an iteration
next_pc(st) == IF st = "Running" THEN "loop" ELSE "done"

\* (variant) the broadcast variable is created once and reused
sc_broadcast_Reused(cs, old) == IF old = <<>> THEN cs ELSE old

\* sc.broadcast(centroids): a new broadcast variable holding the value
sc_broadcast(cs, old) == cs

\* (variant) the reduce side starts on the first finished map task
StageComplete_Any(t) == \E p \in DOMAIN t : t[p] = "done"

\* the reduce side of the shuffle starts when every map task has finished
StageComplete(t) == \A p \in DOMAIN t : t[p] = "done"

\* ---- initial state ------------------------------------------------------
\* The order of the points in X and the numbering of the partitions play no
\* part in any step, so the data sets are listed up to reordering (sorted)
\* and the splits up to renumbering of the partitions.
DataSets(n) ==
    {X \in [1..n -> Locations] :
        \A i \in 1..(n - 1) : VecLeq(X[i], X[i + 1])}

Splits(n) ==
    {f \in [Points -> 1..n] :
        \A i \in Points : \A p \in 2..n :
            f[i] = p => \E m \in 1..(i - 1) : f[m] = p - 1}

\* rand_indices: k different rows of X
RandIndices(kk) ==
    {r \in [Ids(kk) -> Points] : \A a, b \in Ids(kk) : a # b => r[a] # r[b]}

Idle(n) == [p \in 1..n |-> "pending"]
Nothing(n) == [p \in 1..n |-> <<>>]
Zeros(n) == [p \in 1..n |-> 0]

Init ==
    /\ impl \in {"kmeans", "driver"}
    /\ datapoints \in DataSets(NumPoints)
    /\ k \in 1..MaxK
    /\ k <= NumPoints
    /\ maxiter \in 1..MaxIter
    /\ numPartitions \in (IF impl = "driver" THEN 1..MaxPartitions ELSE {1})
    /\ part \in Splits(numPartitions)
    /\ \E r \in RandIndices(k) :
           centroids0 = [j \in Ids(k) |-> ScaleVec(datapoints[r[j]])]
    /\ seeder = "off"
    /\ d2 = <<>>
    /\ centroids = centroids0
    /\ prev = centroids0
    /\ itr = 0
    /\ het = <<>>
    /\ disp = <<>>
    /\ state = "Running"
    /\ pc = "loop"
    /\ bcCentroids = <<>>
    /\ task = Idle(numPartitions)
    /\ seen = Nothing(numPartitions)
    /\ closest = Nothing(numPartitions)
    /\ wcss = Zeros(numPartitions)
    /\ shuffle = {}
    /\ deadline = "none"
    /\ elbow = <<>>

config == <<impl, datapoints, part, numPartitions, k, maxiter, centroids0,
            seeder, d2, deadline, elbow>>
job == <<bcCentroids, task, seen, closest, wcss, shuffle>>

\* ---- serial kmeans(X, k, maxiter) ---------------------------------------
\* one pass of the loop body: assignment step, update step, stop condition
KMeansIteration ==
    /\ impl = "kmeans"
    /\ pc = "loop"
    /\ \E agg \in {assignement_step(Points, centroids)} :
       \E surviving \in {collect(agg)} :
       \E far \in [DOMAIN centroids \ DOMAIN agg -> Farthest(surviving)] :
       \E new \in {new_centroids(centroids, far)} :
       \E st \in {controller(stop_condition(centroids, new), itr + 1, maxiter)} :
           /\ prev' = centroids
           /\ centroids' = new
           /\ itr' = itr + 1
           /\ het' = Append(het, heterogeneity(Points, centroids))
           /\ disp' = Append(disp, MaxDisplacementSq(centroids, new))
           /\ state' = st
           /\ pc' = next_pc(st)
    /\ UNCHANGED <<config, job>>

\* ---- distributed driver loop --------------------------------------------
\* bcCentroids = sc.broadcast(centroids); the job of the iteration is set up
Broadcast ==
    /\ impl = "driver"
    /\ pc = "loop"
    /\ bcCentroids' = sc_broadcast(centroids, bcCentroids)
    /\ task' = Idle(numPartitions)
    /\ seen' = Nothing(numPartitions)
    /\ closest' = Nothing(numPartitions)
    /\ wcss' = Zeros(numPartitions)
    /\ shuffle' = {}
    /\ pc' = "map"
    /\ UNCHANGED <<config, centroids, prev, itr, het, disp, state>>

\* (variant) the map tasks write their result to one place that they share
MapTask_SharedResult(p) ==
    /\ pc = "map"
    /\ task[p] = "pending"
    /\ \E bc \in {bcCentroids} :
       \E z \in {Assignment(Partition(p), bc)} :
       \E out \in {PartialAggregate(z)} :
          /\ seen' = [seen EXCEPT ![p] = bc]
          /\ closest' = [q \in Partitions |-> out]
          /\ wcss' = [wcss EXCEPT ![p] = SquaredDistances(z, bc)]
          /\ shuffle' = shuffle \cup {[of |-> {p}, agg |-> out]}
    /\ task' = [task EXCEPT ![p] = "done"]
    /\ UNCHANGED <<config, centroids, prev, itr, het, disp, state, pc,
                   bcCentroids>>

\* the map task of partition p runs on a worker: it reads the broadcast value
\* and applies assignement_step to the points of its partition
MapTask(p) ==
    /\ pc = "map"
    /\ task[p] = "pending"
    /\ \E bc \in {bcCentroids} :
       \E z \in {Assignment(Partition(p), bc)} :
       \E out \in {PartialAggregate(z)} :
          /\ seen' = [seen EXCEPT ![p] = bc]
          /\ closest' = [closest EXCEPT ![p] = out]
          /\ wcss' = [wcss EXCEPT ![p] = SquaredDistances(z, bc)]
          /\ shuffle' = shuffle \cup {[of |-> {p}, agg |-> out]}
    /\ task' = [task EXCEPT ![p] = "done"]
    /\ UNCHANGED <<config, centroids, prev, itr, het, disp, state, pc,
                   bcCentroids>>

\* reduceByKey(update_step_sum): two partial results meet and are combined
ShuffleMerge ==
    /\ pc = "map"
    /\ StageComplete(task)
    /\ \E a, b \in shuffle :
          /\ a # b
          /\ shuffle' = (shuffle \ {a, b}) \cup
                 {[of |-> a.of \cup b.of, agg |-> reduceByKey(a.agg, b.agg)]}
    /\ UNCHANGED <<config, centroids, prev, itr, het, disp, state, pc,
                   bcCentroids, task, seen, closest, wcss>>

\* the reduced (sum, count) of every key, once all partial results are combined
Reduced == (CHOOSE a \in shuffle : TRUE).agg

\* map(update_step_mean).collect(): the driver gets the new centroids
Collect ==
    /\ impl = "driver"
    /\ pc = "map"
    /\ StageComplete(task)
    /\ Cardinality(shuffle) = 1
    /\ \E new \in {collect(Reduced)} :
       \E st \in {controller(FALSE, itr + 1, maxiter)} :
          /\ prev' = centroids
          /\ centroids' = new
          /\ itr' = itr + 1
          /\ het' = Append(het, SumOver(Partitions, wcss))
          /\ disp' = Append(disp, MaxDisplacementSq(centroids, new))
          /\ state' = st
          /\ pc' = next_pc(st)
    /\ UNCHANGED <<config, job>>

Next ==
    \/ KMeansIteration
    \/ Broadcast
    \/ \E p \in Partitions : MapTask(p)
    \/ ShuffleMerge
    \/ Collect

Spec == Init /\ [][Next]_vars

\* ---- k-means++ ----------------------------------------------------------
\* (variant) the weights are not looked at: any data point may be drawn
Weighted_Uniform(w) == DOMAIN w

\* the points that a draw with probability w[p] / (total of w) can give
Weighted(w) == {p \in DOMAIN w : w[p] > 0}

\* (variant) the weight is the distance to the newest center alone
recompute_weight_NewestOnly(w, c) ==
    [p \in Points |-> SqDist(ScaleVec(datapoints[p]), c)]

\* the weight of each point becomes the smaller of its weight and its squared
\* distance to the new center c
recompute_weight(w, c) ==
    [p \in Points |->
        IF SqDist(ScaleVec(datapoints[p]), c) < w[p]
        THEN SqDist(ScaleVec(datapoints[p]), c) ELSE w[p]]

\* the centers cs and one more, c
with_center(cs, c) ==
    [j \in Ids(Cardinality(DOMAIN cs) + 1) |-> IF j \in DOMAIN cs THEN cs[j] ELSE c]

seeder_after(n) == IF n = k THEN "seeded" ELSE "sampling"

run_idle ==
    /\ centroids = <<>> /\ prev = <<>> /\ itr = 0 /\ het = <<>> /\ disp = <<>>
    /\ state = "Running" /\ pc = "seed"
    /\ bcCentroids = <<>> /\ task = Idle(1) /\ seen = Nothing(1)
    /\ closest = Nothing(1) /\ wcss = Zeros(1) /\ shuffle = {}
    /\ deadline = "none"
    /\ elbow = <<>>

\* k-means++ is asked for k initial centroids of a data set
SeedInit ==
    /\ impl = "k-means++"
    /\ datapoints \in DataSets(NumPoints)
    /\ k \in 1..(MaxK + 1)
    /\ maxiter = 1
    /\ numPartitions = 1
    /\ part \in Splits(1)
    /\ centroids0 = <<>>
    /\ seeder = "first"
    /\ d2 = <<>>
    /\ run_idle

run == <<impl, datapoints, part, numPartitions, k, maxiter, centroids, prev,
         itr, het, disp, state, pc, job, deadline, elbow>>

\* choose a data point at random as the first centroid and compute the
\* squared distance of all data points to it
ChooseFirst ==
    /\ seeder = "first"
    /\ \E i \in Points : \E c \in {ScaleVec(datapoints[i])} :
          /\ centroids0' = with_center(<<>>, c)
          /\ d2' = [p \in Points |-> SqDist(ScaleVec(datapoints[p]), c)]
    /\ seeder' = seeder_after(1)
    /\ UNCHANGED run

\* draw the next centroid, each point with probability weight / total weight,
\* and recompute the weights
ChooseNext ==
    /\ seeder = "sampling"
    /\ SumOver(Points, d2) > 0
    /\ \E i \in Weighted(d2) : \E c \in {ScaleVec(datapoints[i])} :
          /\ centroids0' = with_center(centroids0, c)
          /\ d2' = recompute_weight(d2, c)
    /\ seeder' = seeder_after(Cardinality(DOMAIN centroids0) + 1)
    /\ UNCHANGED run

\* the total weight is 0: weight / total is not a probability, no point can
\* be drawn
SamplingFails ==
    /\ seeder = "sampling"
    /\ SumOver(Points, d2) = 0
    /\ seeder' = "failed"
    /\ UNCHANGED <<run, centroids0, d2>>

SeedNext == ChooseFirst \/ ChooseNext \/ SamplingFails

SeedSpec == SeedInit /\ [][SeedNext]_vars

\* ---- a deadline given by the caller -------------------------------------
\* the distributed loop is started by a caller that has a deadline
DeadlineInit ==
    /\ impl = "driver"
    /\ datapoints \in DataSets(NumPoints)
    /\ k \in 1..MaxK
    /\ k <= NumPoints
    /\ maxiter \in 1..MaxIter
    /\ numPartitions \in 1..MaxPartitions
    /\ part \in Splits(numPartitions)
    /\ \E r \in RandIndices(k) :
           centroids0 = [j \in Ids(k) |-> ScaleVec(datapoints[r[j]])]
    /\ seeder = "off"
    /\ d2 = <<>>
    /\ centroids = centroids0
    /\ prev = centroids0
    /\ itr = 0
    /\ het = <<>>
    /\ disp = <<>>
    /\ state = "Running"
    /\ pc = "loop"
    /\ bcCentroids = <<>>
    /\ task = Idle(numPartitions)
    /\ seen = Nothing(numPartitions)
    /\ closest = Nothing(numPartitions)
    /\ wcss = Zeros(numPartitions)
    /\ shuffle = {}
    /\ deadline = "pending"
    /\ elbow = <<>>

\* the deadline expires, at any moment of the run
DeadlineExpires ==
    /\ deadline = "pending"
    /\ state = "Running"
    /\ deadline' = "expired"
    /\ UNCHANGED <<impl, datapoints, part, numPartitions, k, maxiter,
                   centroids0, seeder, d2, centroids, prev, itr, het, disp,
                   state, pc, job, elbow>>

DeadlineNext ==
    \/ Broadcast
    \/ \E p \in Partitions : MapTask(p)
    \/ ShuffleMerge
    \/ Collect
    \/ DeadlineExpires

DeadlineSpec == DeadlineInit /\ [][DeadlineNext]_vars

\* ---- elbow method --------------------------------------------------------
\* "run the k-means algorithm using different values of k" and collect the
\* heterogeneity of each run: one run after the other, each from initial
\* centroids of its own, over a data set with more points than the largest k.
\* The RDD of a distributed sweep has one partition.
ElbowKs == 1..(MaxK + 1)

ElbowInit ==
    /\ impl \in {"kmeans", "driver"}
    /\ datapoints \in DataSets(NumPoints + 1)
    /\ k = 1
    /\ maxiter \in 1..MaxIter
    /\ numPartitions = 1
    /\ part \in Splits(numPartitions)
    /\ \E r \in RandIndices(k) :
           centroids0 = [j \in Ids(k) |-> ScaleVec(datapoints[r[j]])]
    /\ seeder = "off"
    /\ d2 = <<>>
    /\ centroids = centroids0
    /\ prev = centroids0
    /\ itr = 0
    /\ het = <<>>
    /\ disp = <<>>
    /\ state = "Running"
    /\ pc = "loop"
    /\ bcCentroids = <<>>
    /\ task = Idle(numPartitions)
    /\ seen = Nothing(numPartitions)
    /\ closest = Nothing(numPartitions)
    /\ wcss = Zeros(numPartitions)
    /\ shuffle = {}
    /\ deadline = "none"
    /\ elbow = <<>>

\* the run with k clusters has ended: its heterogeneity is collected and the
\* run with the next k is started
ElbowCollect ==
    /\ state \in {"Converged", "BudgetExhausted"}
    /\ Len(elbow) = k - 1
    /\ elbow' = Append(elbow, heterogeneity(Points, centroids))
    /\ IF k + 1 \in ElbowKs
       THEN /\ k' = k + 1
            /\ \E r \in RandIndices(k + 1) :
                   centroids0' = [j \in Ids(k + 1) |-> ScaleVec(datapoints[r[j]])]
            /\ centroids' = centroids0'
            /\ prev' = centroids0'
            /\ itr' = 0
            /\ het' = <<>>
            /\ disp' = <<>>
            /\ state' = "Running"
            /\ pc' = "loop"
       ELSE UNCHANGED <<k, centroids0, centroids, prev, itr, het, disp, state, pc>>
    /\ UNCHANGED <<impl, datapoints, part, numPartitions, maxiter, seeder, d2,
                   deadline, job>>

ElbowNext ==
    \/ KMeansIteration
    \/ Broadcast
    \/ \E p \in Partitions : MapTask(p)
    \/ Collect
    \/ ElbowCollect

ElbowSpec == ElbowInit /\ [][ElbowNext]_vars

\* every enabled step of the driver or of a worker is eventually taken
FairSpec == Spec /\ WF_vars(Next)

\* ---- properties ---------------------------------------------------------
Terminal == state \in {"Converged", "BudgetExhausted"}

\* every partial result is in and they are combined into one
ReduceDone == pc = "map" /\ StageComplete(task) /\ Cardinality(shuffle) = 1

\* tolerances, in centroid units: 0, half a data unit, one data unit
Tolerances == {0, Scale \div 2, Scale}

\* while the run is Running one of its steps can be taken: the loop body, a
\* map task, a combination of partial results or the collect
CanStep ==
    \/ pc = "loop"
    \/ pc = "map" /\ \E p \in Partitions : task[p] = "pending"
    \/ pc = "map" /\ StageComplete(task) /\ shuffle # {}

\* C1: a run never completes more than maxiter iterations; while it is
\* Running a step is always possible, and when the iteration count reaches
\* maxiter the controller is in a terminal state (BudgetExhausted unless it
\* converged) and the loop has been left.
C1_BoundedIterations ==
    /\ itr <= maxiter
    /\ Len(het) = itr
    /\ state = "Running" => itr < maxiter /\ CanStep
    /\ Terminal => pc = "done"
    /\ state = "BudgetExhausted" => itr = maxiter

C1_Witness ==
    /\ state = "BudgetExhausted"
    /\ itr = maxiter
    /\ maxiter > 1
    /\ centroids # prev

C3_Absorbing == [][Terminal => UNCHANGED vars]_vars

C3_Witness ==
    /\ Terminal
    /\ pc = "done"
    /\ impl = "driver"
    /\ itr >= 2

\* C4: the heterogeneity recorded by an iteration is never greater than the
\* one recorded by the iteration before it.
C4_HeterogeneityNonIncreasing ==
    \A i \in 1..(Len(het) - 1) : het[i + 1] <= het[i]

\* an empty cluster (two initial centroids at one position) was reinitialized
\* in the first iteration, and the heterogeneity went down
C4_Witness ==
    /\ impl = "kmeans"
    /\ Len(het) >= 2
    /\ het[2] < het[1]
    /\ \E a, b \in DOMAIN centroids0 : a # b /\ centroids0[a] = centroids0[b]

RECURSIVE Lloyd(_, _)
\* the centroids after n iterations over the unpartitioned data set
Lloyd(cs, n) ==
    IF n = 0 THEN cs
    ELSE CHOOSE r \in {Lloyd(c, n - 1) : c \in {collect(assignement_step(Points, cs))}} : TRUE

\* C6: the centroids of the distributed run after each iteration, its number
\* of iterations and its terminal reason depend on the data, the initial
\* centroids and maxiter alone, not on the partitioning.
C6_PartitionInvariance ==
    impl = "driver" =>
        /\ pc # "map" => centroids = Lloyd(centroids0, itr)
        /\ Terminal <=> itr = maxiter
        /\ Terminal => state = "BudgetExhausted"

C6_Witness ==
    /\ impl = "driver"
    /\ numPartitions >= 2
    /\ \A p \in Partitions : Partition(p) # {}
    /\ itr >= 2
    /\ centroids # prev

\* C7 (as stated): after every iteration there are exactly k centroids, with
\* ids 0..k-1.
C7_KCentroids == DOMAIN centroids = Ids(k)

\* C8: every point of a partition is counted for exactly one centroid, and
\* after the reduction the count of every centroid is the sum of its
\* per-partition counts, all counts adding up to n.
CountOf(agg, j) == IF j \in DOMAIN agg THEN agg[j].count ELSE 0

C8_CountsAddUp ==
    /\ \A p \in Partitions : task[p] = "done" =>
           SumOver(Ids(k), [j \in Ids(k) |-> CountOf(closest[p], j)])
               = Cardinality(Partition(p))
    /\ ReduceDone =>
           /\ \A j \in Ids(k) :
                  CountOf(Reduced, j)
                      = SumOver(Partitions, [p \in Partitions |-> CountOf(closest[p], j)])
           /\ SumOver(Ids(k), [j \in Ids(k) |-> CountOf(Reduced, j)]) = NumPoints

C8_Witness ==
    /\ ReduceDone
    /\ numPartitions >= 2
    /\ Cardinality(DOMAIN Reduced) >= 2
    /\ \E p, q \in Partitions : p # q /\ closest[p] # <<>> /\ closest[q] # <<>>

\* C9: every mapper of an iteration has read the value broadcast at the
\* start of that iteration, which is the whole centroid set the driver holds
\* for the iteration.
C9_SameSnapshot ==
    pc = "map" =>
        /\ bcCentroids = centroids
        /\ \A p \in Partitions : task[p] = "done" => seen[p] = bcCentroids

C9_Witness ==
    /\ pc = "map"
    /\ itr >= 1
    /\ numPartitions >= 2
    /\ StageComplete(task)
    /\ centroids # centroids0

\* C10: the driver's clustering state changes only in a step that finds every
\* map task of the iteration finished and the partial results of all
\* partitions combined, and that step ends the iteration's job.
ClusteringState == <<itr, centroids, prev, het, state>>

C10_Barrier ==
    [][(impl = "driver" /\ ClusteringState' # ClusteringState) =>
          /\ pc = "map" /\ pc' # "map"
          /\ \A p \in Partitions : task[p] = "done"
          /\ \E a \in shuffle : shuffle = {a} /\ a.of = Partitions
          /\ itr' = itr + 1]_vars

C10_Witness ==
    /\ impl = "driver"
    /\ numPartitions >= 2
    /\ pc = "loop"
    /\ itr >= 1
    /\ disp[itr] > 0

\* C11: in a run that ended Converged, the assignment step applied to the
\* final centroids gives every point the centroid id that the last iteration
\* (which assigned against the centroids it started from) gave it.
C11_IdempotentAtFixedPoint ==
    state = "Converged" =>
        Assignment(Points, centroids) = Assignment(Points, prev)

C11_Witness ==
    /\ state = "Converged"
    /\ k >= 2
    /\ centroids # centroids0
    /\ {a[2] : a \in Assignment(Points, centroids)} = Ids(k)

\* C12 (as stated): the run is BudgetExhausted exactly when the iteration
\* count reached maxiter and the tolerance was met at none of the barriers
\* passed; the run has one terminal reason; and a BudgetExhausted run carries
\* a whole result: k centroids, the final heterogeneity, the iteration count.
C12_NonConvergenceReport ==
    /\ \A tol \in Tolerances :
           state = "BudgetExhausted" <=>
               /\ itr = maxiter
               /\ \A b \in 1..Len(disp) : ~(disp[b] < tol * tol)
    /\ state \in {"Running", "Converged", "BudgetExhausted"}
    /\ state = "BudgetExhausted" =>
           /\ DOMAIN centroids = Ids(k)
           /\ Len(het) = itr /\ itr >= 1
           /\ itr = maxiter

\* the different places where data points lie
DistinctLocations == {datapoints[i] : i \in Points}

InvalidConfig ==
    k < 1 \/ k > Cardinality(DistinctLocations) \/ maxiter < 1

\* C13 (as stated): for a configuration with k < 1, k greater than the number
\* of distinct points or maxiter < 1 nothing is ever run: no centroids are
\* seeded, nothing is broadcast, no map task or combination runs, and there
\* is no clustering state (no centroids, no iteration, no heterogeneity).
C13_InvalidConfigRejected ==
    InvalidConfig =>
        /\ centroids0 = <<>> /\ centroids = <<>>
        /\ bcCentroids = <<>>
        /\ \A p \in Partitions : task[p] = "pending"
        /\ shuffle = {}
        /\ itr = 0 /\ het = <<>>

\* the k-means++ centers chosen so far lie on data points
OnDataPoints ==
    \A j \in DOMAIN centroids0 : \E i \in Points : centroids0[j] = ScaleVec(datapoints[i])

DistancesOf(i, cs) ==
    {<<j, SqDist(ScaleVec(datapoints[i]), cs[j])>> : j \in DOMAIN cs}

\* of pairs <<id, distance>>, those whose distance none is smaller than
NearestOf(D) == {b \in D : \A c \in D : b[2] <= c[2]}

\* of pairs <<id, distance>>, the one with the lowest id
LowestOf(N) == CHOOSE b \in N : \A c \in N : b[1] <= c[1]

\* <<i, id, distance>>: the lowest id among the centroids nearest to point i
ExpectedOf(i, cs) ==
    CHOOSE e \in {<<i, b[1], b[2]>> : b \in {LowestOf(NearestOf(DistancesOf(i, cs)))}} : TRUE

\* what a map task over the triples E has to emit for centroid id j
ExpectedSum(E, j) ==
    CHOOSE v \in {[sum |-> VecSumOver(S, datapoints), count |-> Cardinality(S)] :
                     S \in {{e[1] : e \in {x \in E : x[2] = j}}}} : TRUE

MeanOfCluster(cs, j) ==
    CHOOSE v \in {[f \in Features |-> (Scale * VecSumOver(S, datapoints)[f]) \div Cardinality(S)] :
                     S \in {{i \in Points : ExpectedOf(i, cs)[2] = j}}} : TRUE

\* the ids of cs that the assignment against cs gives at least one point
NonEmpty(cs) == {ExpectedOf(i, cs)[2] : i \in Points}

\* point i is as far from its nearest centroid of cs as any point is
IsFarthest(i, cs) ==
    \A m \in Points : ExpectedOf(i, cs)[3] >= ExpectedOf(m, cs)[3]

\* C16 (as stated): at every update every centroid with points becomes the
\* mean of its points, every centroid without points is put on a data point
\* farthest from its nearest surviving centroid, and after an update with
\* such a recovery every one of the k centroids gets a point in the next
\* assignment if the data set has at least k distinct locations.
C16_UpdaterPolicy ==
    [][itr' = itr + 1 =>
          \E used \in {NonEmpty(centroids)} :
              /\ \A j \in used :
                     j \in DOMAIN centroids' /\ centroids'[j] = MeanOfCluster(centroids, j)
              /\ \A j \in DOMAIN centroids \ used :
                     /\ j \in DOMAIN centroids'
                     /\ \E i \in Points :
                            /\ centroids'[j] = ScaleVec(datapoints[i])
                            /\ IsFarthest(i, [u \in used |-> centroids'[u]])
              /\ (used # DOMAIN centroids /\ Cardinality(DistinctLocations) >= k) =>
                     NonEmpty(centroids') = Ids(k)]_vars

\* C17 (as stated): an iteration whose update leaves every centroid unchanged
\* is the last one of the run: the run stops there, whatever the tolerance.
C17_StopAtFirstFixedPoint ==
    [][(itr' = itr + 1 /\ centroids' = centroids) =>
          (state' # "Running" /\ pc' = "done")]_vars

\* the smallest squared distance of point p to the centers cs
MinSqDist(p, cs) == (CHOOSE b \in NearestOf(DistancesOf(p, cs)) : TRUE)[2]

\* C18: after every round of k-means++ the weight d2[p] of every point is
\* its smallest squared distance to the centers chosen so far; the point
\* drawn in a round had a positive weight; and so the centers lie on
\* pairwise distinct locations (k of them when the seeder ends seeded, which
\* it does whenever the data set has at least k distinct locations).
C18_WeightsAndDistinct ==
    [][centroids0' # centroids0 =>
          /\ \A p \in Points : d2'[p] = MinSqDist(p, centroids0')
          /\ seeder = "sampling" =>
                 /\ SumOver(Points, d2) > 0
                 /\ \A p \in Points :
                        ScaleVec(datapoints[p]) = centroids0'[Cardinality(DOMAIN centroids0)]
                            => d2[p] > 0
          /\ \A a, b \in DOMAIN centroids0' : a # b => centroids0'[a] # centroids0'[b]
          /\ (seeder' = "seeded" /\ Cardinality(DistinctLocations) >= k) =>
                 Cardinality({centroids0'[j] : j \in DOMAIN centroids0'}) = k]_vars

\* two points lie on the first center; a second center was drawn elsewhere
C18_Witness ==
    /\ seeder = "seeded"
    /\ Cardinality(DOMAIN centroids0) = 2
    /\ \E p, q \in Points :
           p # q /\ ScaleVec(datapoints[p]) = centroids0[0] /\ ScaleVec(datapoints[q]) = centroids0[0]

\* the partitions that hold at least one point
NonEmptyPartitions == {p \in Partitions : Partition(p) # {}}

RECURSIVE Combined(_)
\* what the map tasks of the partitions P emitted, combined in a fixed order
Combined(P) ==
    LET p == CHOOSE p \in P : TRUE
    IN IF P = {p} THEN closest[p] ELSE reduceByKey(closest[p], Combined(P \ {p}))

\* C19: the map task of a partition without points emits an empty partial
\* result and measures no distance; the iteration still gets to its end, and
\* its reduced sums and counts and the centroids collected from them are
\* those of the partitions that have points, taken alone.
C19_EmptyPartition ==
    /\ \A p \in Partitions : (task[p] = "done" /\ Partition(p) = {}) =>
           closest[p] = <<>> /\ wcss[p] = 0
    /\ ReduceDone => Reduced = Combined(NonEmptyPartitions)
    /\ (impl = "driver" /\ pc \in {"loop", "done"} /\ itr >= 1) =>
           centroids = collect(Combined(NonEmptyPartitions))

C19_Witness ==
    /\ impl = "driver"
    /\ pc = "done"
    /\ itr >= 2
    /\ NonEmptyPartitions # Partitions
    /\ centroids # centroids0

\* the data set and its split into partitions
PointStore == <<datapoints, part, numPartitions>>

\* C20: no step changes the points or their split into partitions, and the
\* step of a map task changes, besides the task's own state, only what its
\* own partition emitted (its partial result, which it hands to the
\* shuffle): nothing of another partition and nothing the driver holds.
C20_ReadOnlyPointStore ==
    [][/\ UNCHANGED PointStore
       /\ \A p \in Partitions : (task[p] = "pending" /\ task'[p] = "done") =>
              /\ \A q \in Partitions \ {p} :
                     /\ closest'[q] = closest[q]
                     /\ wcss'[q] = wcss[q]
                     /\ seen'[q] = seen[q]
                     /\ task'[q] = task[q]
              /\ shuffle' = shuffle \cup {[of |-> {p}, agg |-> closest'[p]]}
              /\ UNCHANGED <<centroids, prev, itr, het, disp, state, bcCentroids,
                             k, maxiter, centroids0>>]_vars

\* a map task has run after another one's, in a later iteration
C20_Witness ==
    /\ pc = "map"
    /\ itr >= 1
    /\ numPartitions >= 2
    /\ StageComplete(task)
    /\ \A p \in Partitions : closest[p] # <<>>
    /\ Cardinality(shuffle) = numPartitions

\* C21 (as stated): a deadline that has expired stops the run at the
\* iteration barrier that follows, and a run stops only at a barrier: every
\* map task of the iteration has finished and the partial results are
\* combined into the new centroids (or the iteration is discarded and the
\* clustering state is as the last barrier left it), so that the state at
\* the stop is that of a whole number of iterations.
C21_DeadlineAtBarrier ==
    [][/\ (deadline = "expired" /\ itr' = itr + 1) => state' # "Running"
       /\ (state = "Running" /\ state' # "Running") =>
              \/ /\ ReduceDone
                 /\ itr' = itr + 1
                 /\ Len(het') = itr'
                 /\ centroids' = collect(Reduced)
              \/ UNCHANGED <<itr, centroids, prev, het>>]_vars

\* cs holds per-centroid values only: at most k vectors, keyed by centroid id
PerCentroid(cs) ==
    /\ DOMAIN cs \subseteq Ids(k)
    /\ Cardinality(DOMAIN cs) <= k
    /\ \A j \in DOMAIN cs : DOMAIN cs[j] = Features

\* C22: what the driver holds and what it gets from the workers is never one
\* value per point: its centroid sets and the reduced result it collects
\* have at most k entries, keyed by centroid id, each a vector (or a vector
\* sum and a count); the workers' partial results are keyed the same way;
\* and the heterogeneity it records is one number per iteration.
C22_NoAssignmentInDriver ==
    /\ PerCentroid(centroids) /\ PerCentroid(prev)
    /\ bcCentroids # <<>> => PerCentroid(bcCentroids)
    /\ \A i \in 1..Len(het) : het[i] \in Nat
    /\ \A a \in shuffle :
           /\ DOMAIN a.agg \subseteq Ids(k)
           /\ \A j \in DOMAIN a.agg :
                  DOMAIN a.agg[j].sum = Features /\ a.agg[j].count \in 1..NumPoints
    /\ \A p \in Partitions : DOMAIN closest[p] \subseteq Ids(k)

\* more points than clusters, and the driver has collected twice
C22_Witness ==
    /\ impl = "driver"
    /\ k = 2
    /\ k < NumPoints
    /\ itr >= 2
    /\ Cardinality(DOMAIN centroids) = k
    /\ Cardinality(DistinctLocations) = NumPoints

\* the centroids of cs that the assignment against cs leaves without points
Degenerate(cs) == DOMAIN cs \ NonEmpty(cs)

\* C23 (as stated, for what a run shows of it): an iteration in which a
\* cluster has no points completes like any other, the run does not fail on
\* it (it is Running, Converged or BudgetExhausted afterwards, and
\* BudgetExhausted only when the budget is used up), and the cluster is
\* there after the iteration, reinitialized on a data point.
C23_DegenerateRecovered ==
    [][(itr' = itr + 1 /\ Degenerate(centroids) # {}) =>
          /\ state' \in {"Running", "Converged", "BudgetExhausted"}
          /\ state' = "BudgetExhausted" => itr' = maxiter
          /\ \A j \in Degenerate(centroids) :
                 /\ j \in DOMAIN centroids'
                 /\ \E i \in Points : centroids'[j] = ScaleVec(datapoints[i])]_vars

====
